---- MODULE Spec2Model ----
(***************************************************************************)
(* Model of the mutation-rate calculator: the FASTA loader (read_fasta),   *)
(* the pairwise calculator (compute_mutation_rate) and the command line    *)
(* application (MutationRateApp.run).                                      *)
(*                                                                         *)
(* Strings are sequences of one-character strings.  The sequence           *)
(* collection is an insertion-ordered map, kept as a sequence of           *)
(* [id, seq] records.  A float rate m/c is kept as the exact fraction      *)
(* <<m, c>>; the literal 0.0 is <<0, 1>>.                                  *)
(*                                                                         *)
(* The environment can fail the read of the input file and the open, write *)
(* and close of the output file; print to the console is taken to succeed. *)
(***************************************************************************)
EXTENDS Integers, Sequences, FiniteSets, TLC

\* ---------------------------------------------------------------- bounds
MaxLen == 3          \* longest string handed to the calculator directly
MaxLines == 4        \* longest input handed to the loader directly
RunMaxLines == 4     \* longest input file of a command line run

\* ------------------------------------------------------------- alphabets
CalcAlphabet == {"A", "a", "C", "-"}
Whitespace == {" ", "\n"}
Marker == ">"

VARIABLES
  \* compute_mutation_rate, called as a standalone function
  ref_seq, target_seq, exclude_gaps, calc_pc, calc_out,
  \* read_fasta, called as a standalone function
  raw_lines, pos, seqs, current_id, chunks, fasta_pc,
  \* MutationRateApp.run
  input_file, args, run_pc, loaded, results, calls, status,
  stdout, out_file, csv_out, env

calc_vars == <<ref_seq, target_seq, exclude_gaps, calc_pc, calc_out>>
fasta_vars == <<raw_lines, pos, seqs, current_id, chunks, fasta_pc>>
run_vars == <<input_file, args, run_pc, loaded, results, calls, status,
              stdout, out_file, csv_out, env>>
vars == <<calc_vars, fasta_vars, run_vars>>

\* ------------------------------------------------------- string helpers
StringsUpTo(alphabet, n) == UNION {[1..k -> alphabet] : k \in 0..n}

RECURSIVE LStrip(_)
LStrip(s) ==
  IF s /= <<>> /\ Head(s) \in Whitespace THEN LStrip(Tail(s)) ELSE s

RECURSIVE RStrip(_)
RStrip(s) ==
  IF s /= <<>> /\ s[Len(s)] \in Whitespace
  THEN RStrip(SubSeq(s, 1, Len(s) - 1)) ELSE s

\* str.strip()
Strip(s) == RStrip(LStrip(s))

UpperChar(c) ==
  CASE c = "a" -> "A"
    [] c = "c" -> "C"
    [] c = "g" -> "G"
    [] c = "t" -> "T"
    [] c = "x" -> "X"
    [] OTHER -> c

\* str.upper()
Upper(s) == [i \in 1..Len(s) |-> UpperChar(s[i])]

\* "".join(chunks)
RECURSIVE Join(_)
Join(cs) == IF cs = <<>> THEN <<>> ELSE Head(cs) \o Join(Tail(cs))

\* ------------------------------------------------ compute_mutation_rate
\* Variant: a position is skipped only when both sides have a gap.
RECURSIVE ZipLoopSkipBoth(_, _, _, _, _, _)
ZipLoopSkipBoth(r, t, gaps, i, mutations, comparable) ==
  IF i > Len(r) \/ i > Len(t)
  THEN [mutations |-> mutations, comparable |-> comparable, compared |-> i - 1]
  ELSE IF gaps /\ (r[i] = "-" /\ t[i] = "-")
       THEN ZipLoopSkipBoth(r, t, gaps, i + 1, mutations, comparable)
       ELSE ZipLoopSkipBoth(r, t, gaps, i + 1,
                    IF r[i] /= t[i] THEN mutations + 1 ELSE mutations,
                    comparable + 1)

\* Variant: the position is counted as comparable before the gap test.
RECURSIVE ZipLoopCountFirst(_, _, _, _, _, _)
ZipLoopCountFirst(r, t, gaps, i, mutations, comparable) ==
  IF i > Len(r) \/ i > Len(t)
  THEN [mutations |-> mutations, comparable |-> comparable, compared |-> i - 1]
  ELSE IF gaps /\ (r[i] = "-" \/ t[i] = "-")
       THEN ZipLoopCountFirst(r, t, gaps, i + 1, mutations, comparable + 1)
       ELSE ZipLoopCountFirst(r, t, gaps, i + 1,
                    IF r[i] /= t[i] THEN mutations + 1 ELSE mutations,
                    comparable + 1)

\* One pass of the zip loop from position i on, carrying the two counters.
RECURSIVE ZipLoop(_, _, _, _, _, _)
ZipLoop(r, t, gaps, i, mutations, comparable) ==
  IF i > Len(r) \/ i > Len(t)
  THEN [mutations |-> mutations, comparable |-> comparable, compared |-> i - 1]
  ELSE IF gaps /\ (r[i] = "-" \/ t[i] = "-")
       THEN ZipLoop(r, t, gaps, i + 1, mutations, comparable)
       ELSE ZipLoop(r, t, gaps, i + 1,
                    IF r[i] /= t[i] THEN mutations + 1 ELSE mutations,
                    comparable + 1)

\* Variant: the division without its guard.
RateUnguarded(mutations, comparable) == <<mutations, comparable>>

\* mutations / comparable if comparable > 0 else 0.0
Rate(mutations, comparable) ==
  IF comparable > 0 THEN <<mutations, comparable>> ELSE <<0, 1>>

\* Variant: only a longer reference is rejected.
LengthsDifferOneWay(r, t) == Len(r) > Len(t)

\* The length test that guards the loop.
LengthsDiffer(r, t) == Len(r) /= Len(t)

\* The whole call: either the ValueError, or the returned triple.  compared
\* is the number of positions the loop looked at before the call ended.
ComputeMutationRate(r, t, gaps) ==
  IF LengthsDiffer(r, t)
  THEN [raised |-> TRUE, compared |-> 0]
  ELSE LET c == ZipLoop(r, t, gaps, 1, 0, 0)
       IN [raised |-> FALSE, compared |-> c.compared,
           mutations |-> c.mutations, comparable |-> c.comparable,
           rate |-> Rate(c.mutations, c.comparable)]

NoOutcome == [raised |-> FALSE, compared |-> 0, mutations |-> 0,
              comparable |-> 0, rate |-> <<0, 1>>]

\* ------------------------------------------------------------ read_fasta
\* The collection is a dict: insertion ordered, one entry per key.
Keys(d) == {d[i].id : i \in 1..Len(d)}

HasKey(d, k) == k \in Keys(d)

\* d[k]
DictGet(d, k) == d[CHOOSE i \in 1..Len(d) : d[i].id = k].seq

\* Variant: an existing entry is kept, the first record wins.
DictSetKeepFirst(d, k, v) ==
  IF HasKey(d, k) THEN d ELSE Append(d, [id |-> k, seq |-> v])

\* d[k] = v : overwrite in place, or append a new entry
DictSet(d, k, v) ==
  IF HasKey(d, k)
  THEN [i \in 1..Len(d) |-> IF d[i].id = k THEN [id |-> k, seq |-> v] ELSE d[i]]
  ELSE Append(d, [id |-> k, seq |-> v])

\* Variant: a record without content is not committed.
FlushSkipEmpty(st) ==
  IF st.current_id /= <<>> /\ st.chunks /= <<>>
  THEN DictSet(st.seqs, st.current_id, Upper(Join(st.chunks)))
  ELSE st.seqs

\* if current_id: seqs[current_id] = "".join(chunks).upper()
Flush(st) ==
  IF st.current_id /= <<>>
  THEN DictSet(st.seqs, st.current_id, Upper(Join(st.chunks)))
  ELSE st.seqs

\* The body of the loop over the lines of the file, for one raw line.
FastaLine(st, raw) ==
  LET line == Strip(raw) IN
  IF line = <<>> THEN st
  ELSE IF Head(line) = Marker
       THEN [seqs |-> Flush(st),
             current_id |-> Strip(Tail(line)),
             chunks |-> <<>>]
       ELSE [st EXCEPT !.chunks = Append(st.chunks, line)]

FastaStart == [seqs |-> <<>>, current_id |-> <<>>, chunks |-> <<>>]

RECURSIVE FastaLoop(_, _)
FastaLoop(st, ls) ==
  IF ls = <<>> THEN st ELSE FastaLoop(FastaLine(st, Head(ls)), Tail(ls))

\* The whole call on a readable file: loop over the lines, then final flush.
ReadFasta(ls) == Flush(FastaLoop(FastaStart, ls))

\* ----------------------------------------------------------- input sets
CalcStrings == StringsUpTo(CalcAlphabet, MaxLen)

\* Raw lines a file handed to the loader is made of.
Lines ==
  { <<"\n">>,                      \* blank
    <<">", "X", "\n">>,            \* header X
    <<">", " ", "X", " ">>,        \* header X, identifier padded
    <<" ", ">", "Y">>,             \* header Y, line indented
    <<">">>,                       \* header with an empty identifier
    <<"a", "c", "\n">>,            \* content
    <<" ", "G", "-">>,             \* content, indented
    <<"t">> }                      \* content

\* Raw lines the input file of a command line run is made of.
RunLines ==
  { <<">", "X">>, <<">", "Y">>, <<"a", "c">>, <<"A", "-">>, <<"G">> }

References == { <<"X">>, <<"Y">>, <<"Z">> }

\* args.output: not given, given empty, given as a path
Outputs == { "None", "", "out.csv" }

Truthy(o) == o \notin {"None", ""}

\* run has not returned a status yet
NotReturned == 0 - 1

Header == "sequence_id,mutations,comparable_positions,mutation_rate"

\* ------------------------------------------------------- resting states
CalcIdle ==
  /\ ref_seq = <<>> /\ target_seq = <<>> /\ exclude_gaps = FALSE
  /\ calc_pc = "idle" /\ calc_out = NoOutcome

FastaIdle ==
  /\ raw_lines = <<>> /\ pos = 1 /\ seqs = <<>> /\ current_id = <<>>
  /\ chunks = <<>> /\ fasta_pc = "idle"

RunIdle ==
  /\ input_file = <<>>
  /\ args = [reference |-> <<"X">>, exclude_gaps |-> FALSE, output |-> "None"]
  /\ run_pc = "idle" /\ loaded = <<>> /\ results = <<>> /\ calls = <<>>
  /\ status = NotReturned /\ stdout = <<>> /\ out_file = <<>> /\ csv_out = <<>>
  /\ env = [read |-> "pending", write |-> "pending"]

\* ------------------------------- compute_mutation_rate as a library call
InitCalc ==
  /\ ref_seq \in CalcStrings
  /\ target_seq \in CalcStrings
  /\ exclude_gaps \in BOOLEAN
  /\ calc_pc = "ready"
  /\ calc_out = NoOutcome
  /\ FastaIdle /\ RunIdle

Call ==
  /\ calc_pc = "ready"
  /\ calc_out' = ComputeMutationRate(ref_seq, target_seq, exclude_gaps)
  /\ calc_pc' = IF calc_out'.raised THEN "raised" ELSE "returned"
  /\ UNCHANGED <<ref_seq, target_seq, exclude_gaps, fasta_vars, run_vars>>

NextCalc == Call

SpecCalc == InitCalc /\ [][NextCalc]_vars

\* ------------------------------------------ read_fasta as a library call
InitFasta ==
  /\ raw_lines \in StringsUpTo(Lines, MaxLines)
  /\ pos = 1
  /\ seqs = <<>> /\ current_id = <<>> /\ chunks = <<>>
  /\ fasta_pc = "reading"
  /\ CalcIdle /\ RunIdle

LoaderState == [seqs |-> seqs, current_id |-> current_id, chunks |-> chunks]

\* one iteration of "for raw in f"
ReadLine ==
  /\ fasta_pc = "reading"
  /\ pos <= Len(raw_lines)
  /\ LET st == FastaLine(LoaderState, raw_lines[pos]) IN
       /\ seqs' = st.seqs
       /\ current_id' = st.current_id
       /\ chunks' = st.chunks
  /\ pos' = pos + 1
  /\ UNCHANGED <<raw_lines, fasta_pc, calc_vars, run_vars>>

\* end of input: the final flush and the return
FinalFlush ==
  /\ fasta_pc = "reading"
  /\ pos > Len(raw_lines)
  /\ seqs' = Flush(LoaderState)
  /\ fasta_pc' = "done"
  /\ UNCHANGED <<raw_lines, pos, current_id, chunks, calc_vars, run_vars>>

NextFasta == ReadLine \/ FinalFlush

SpecFasta == InitFasta /\ [][NextFasta]_vars

\* ----------------------------------------------------- MutationRateApp.run
InitRun ==
  /\ input_file \in StringsUpTo(RunLines, RunMaxLines)
  /\ args \in [reference : References, exclude_gaps : BOOLEAN, output : Outputs]
  /\ run_pc = "read"
  /\ loaded = <<>> /\ results = <<>> /\ calls = <<>>
  /\ status = NotReturned /\ stdout = <<>> /\ out_file = <<>> /\ csv_out = <<>>
  /\ env = [read |-> "pending", write |-> "pending"]
  /\ CalcIdle /\ FastaIdle

Return(code) == status' = code /\ run_pc' = "done"

\* read_fasta raises (the file cannot be opened or read): return 1
RunReadFails ==
  /\ run_pc = "read"
  /\ env' = [env EXCEPT !.read = "failed"]
  /\ Return(1)
  /\ UNCHANGED <<input_file, args, loaded, results, calls, stdout, out_file,
                 csv_out, calc_vars, fasta_vars>>

\* seqs = read_fasta(args.input)
RunRead ==
  /\ run_pc = "read"
  /\ env' = [env EXCEPT !.read = "ok"]
  /\ loaded' = ReadFasta(input_file)
  /\ run_pc' = "check_reference"
  /\ UNCHANGED <<input_file, args, results, calls, status, stdout, out_file,
                 csv_out, calc_vars, fasta_vars>>

\* Variant: an empty collection is let through to the next check.
ReferenceMissingNonEmpty(d, reference) == d /= <<>> /\ ~HasKey(d, reference)

ReferenceMissing(d, reference) == ~HasKey(d, reference)

\* if args.reference not in seqs: return 2
RunCheckReference ==
  /\ run_pc = "check_reference"
  /\ IF ReferenceMissing(loaded, args.reference)
     THEN Return(2)
     ELSE run_pc' = "check_lengths" /\ UNCHANGED status
  /\ UNCHANGED <<input_file, args, loaded, results, calls, stdout, out_file,
                 csv_out, env, calc_vars, fasta_vars>>

\* lengths = {len(s) for s in seqs.values()}
Lengths(d) == {Len(d[i].seq) : i \in 1..Len(d)}

\* Variant: two distinct lengths are let through.
NotAlignedOffByOne(d) == Cardinality(Lengths(d)) > 2

NotAligned(d) == Cardinality(Lengths(d)) /= 1

\* if len(lengths) != 1: return 3
RunCheckLengths ==
  /\ run_pc = "check_lengths"
  /\ IF NotAligned(loaded)
     THEN Return(3)
     ELSE run_pc' = "compute" /\ UNCHANGED status
  /\ UNCHANGED <<input_file, args, loaded, results, calls, stdout, out_file,
                 csv_out, env, calc_vars, fasta_vars>>

\* one iteration of "for sid, seq in seqs.items()"
RunCompute ==
  /\ run_pc = "compute"
  /\ Len(results) < Len(loaded)
  /\ LET entry == loaded[Len(results) + 1]
         ref == DictGet(loaded, args.reference)
         out == ComputeMutationRate(ref, entry.seq, args.exclude_gaps)
     IN /\ calls' = Append(calls, [ref_seq |-> ref, target_seq |-> entry.seq,
                                   raised |-> out.raised])
        /\ IF out.raised
           THEN run_pc' = "raised" /\ UNCHANGED results
           ELSE /\ results' = Append(results,
                      [sequence_id |-> entry.id,
                       mutations |-> out.mutations,
                       comparable_positions |-> out.comparable,
                       mutation_rate |-> out.rate])
                /\ UNCHANGED run_pc
  /\ UNCHANGED <<input_file, args, loaded, status, stdout, out_file, csv_out,
                 env, calc_vars, fasta_vars>>

\* "{:.6f}".format(rate), in millionths
Format6(rate) == (2 * rate[1] * 1000000 + rate[2]) \div (2 * rate[2])

CsvLine(rec) ==
  <<rec.sequence_id, rec.mutations, rec.comparable_positions,
    Format6(rec.mutation_rate)>>

\* lines = [header] + one line per record
CsvLines(recs) == <<Header>> \o [i \in 1..Len(recs) |-> CsvLine(recs[i])]

\* the loop is over: assemble the text; without an output path print it
\* and return 0, with one go on to open the file
RunAssemble ==
  /\ run_pc = "compute"
  /\ Len(results) = Len(loaded)
  /\ csv_out' = CsvLines(results)
  /\ IF Truthy(args.output)
     THEN run_pc' = "open" /\ UNCHANGED <<status, stdout>>
     ELSE stdout' = stdout \o csv_out' /\ Return(0)
  /\ UNCHANGED <<input_file, args, loaded, results, calls, out_file, env,
                 calc_vars, fasta_vars>>

\* open(args.output, "w") raises: nothing is touched, return 4
RunOpenFails ==
  /\ run_pc = "open"
  /\ env' = [env EXCEPT !.write = "failed"]
  /\ Return(4)
  /\ UNCHANGED <<input_file, args, loaded, results, calls, stdout, out_file,
                 csv_out, calc_vars, fasta_vars>>

\* open(args.output, "w") succeeds: the file is truncated
RunOpen ==
  /\ run_pc = "open"
  /\ out_file' = <<>>
  /\ run_pc' = "write"
  /\ UNCHANGED <<input_file, args, loaded, results, calls, status, stdout,
                 csv_out, env, calc_vars, fasta_vars>>

\* What the file holds when f.write or the closing flush raises after n
\* lines have reached the device.
Persisted(text, n) == SubSeq(text, 1, n)

\* f.write(csv_out + "\n") or the close raises: return 4
RunWriteFails ==
  /\ run_pc = "write"
  /\ \E n \in 0..Len(csv_out) : out_file' = Persisted(csv_out, n)
  /\ env' = [env EXCEPT !.write = "failed"]
  /\ Return(4)
  /\ UNCHANGED <<input_file, args, loaded, results, calls, stdout, csv_out,
                 calc_vars, fasta_vars>>

\* the text is written and the file closed; confirm on stdout, return 0
RunWrite ==
  /\ run_pc = "write"
  /\ out_file' = csv_out
  /\ stdout' = Append(stdout, "Wrote results to " \o args.output)
  /\ env' = [env EXCEPT !.write = "ok"]
  /\ Return(0)
  /\ UNCHANGED <<input_file, args, loaded, results, calls, csv_out,
                 calc_vars, fasta_vars>>

NextRun ==
  \/ RunReadFails \/ RunRead \/ RunCheckReference \/ RunCheckLengths
  \/ RunCompute \/ RunAssemble \/ RunOpenFails \/ RunOpen
  \/ RunWriteFails \/ RunWrite

SpecRun == InitRun /\ [][NextRun]_vars

\* ------------------- the calculator, called directly or by the application
InitCalcRun == InitCalc \/ InitRun

NextCalcRun == NextCalc \/ NextRun

SpecCalcRun == InitCalcRun /\ [][NextCalcRun]_vars

\* =================================================== properties: calculator
Positions == 1..Len(ref_seq)

\* position i is skipped: gaps are excluded and either side has a gap
Skipped(i) == exclude_gaps /\ (ref_seq[i] = "-" \/ target_seq[i] = "-")

NotSkipped == {i \in Positions : ~Skipped(i)}

GapCount(s) == Cardinality({i \in 1..Len(s) : s[i] = "-"})

C2_LengthError ==
  calc_pc /= "ready" =>
    /\ (calc_pc = "raised") <=> (Len(ref_seq) /= Len(target_seq))
    /\ (calc_pc = "returned") <=> (Len(ref_seq) = Len(target_seq))
    /\ calc_pc = "raised" =>
         /\ calc_out.compared = 0
         /\ DOMAIN calc_out = {"raised", "compared"}
    /\ calc_pc = "returned" =>
         {"mutations", "comparable", "rate"} \subseteq DOMAIN calc_out

C2_Witness ==
  /\ calc_pc = "raised"
  /\ exclude_gaps
  /\ Len(ref_seq) = 1
  /\ Len(target_seq) = 2

\* C3: every returned triple has 0 <= mutations <= comparable <= len(ref),
\* its rate is mutations/comparable and lies in [0,1]; with no comparable
\* position the call still returns, with mutations 0 and rate exactly 0.
C3_RateBounds ==
  calc_pc = "returned" =>
    /\ 0 <= calc_out.mutations
    /\ calc_out.mutations <= calc_out.comparable
    /\ calc_out.comparable <= Len(ref_seq)
    /\ calc_out.rate[2] > 0
    /\ 0 <= calc_out.rate[1] /\ calc_out.rate[1] <= calc_out.rate[2]
    /\ calc_out.comparable > 0 =>
         calc_out.rate[1] * calc_out.comparable
           = calc_out.mutations * calc_out.rate[2]
    /\ calc_out.comparable = 0 =>
         calc_out.mutations = 0 /\ calc_out.rate[1] = 0

C3_Witness ==
  /\ calc_pc = "returned"
  /\ exclude_gaps
  /\ Len(ref_seq) = MaxLen
  /\ ref_seq = target_seq
  /\ GapCount(ref_seq) = MaxLen
  /\ calc_out.comparable = 0

\* the comparable count a self-comparison is to give
SelfComparable(r, gaps) == IF gaps THEN Len(r) - GapCount(r) ELSE Len(r)

\* C4: comparing a string with itself returns mutations = 0 and comparable
\* = its length, less its number of gaps when gaps are excluded; so the
\* reference's own row of a command line run has mutations 0.
C4_SelfComparison ==
  /\ (calc_pc = "returned" /\ ref_seq = target_seq) =>
       /\ calc_out.mutations = 0
       /\ calc_out.comparable = SelfComparable(ref_seq, exclude_gaps)
  /\ \A n \in 1..Len(results) :
       results[n].sequence_id = args.reference =>
         /\ results[n].mutations = 0
         /\ results[n].comparable_positions =
              SelfComparable(DictGet(loaded, args.reference), args.exclude_gaps)
  /\ \A n \in 2..Len(csv_out) :
       csv_out[n][1] = args.reference => csv_out[n][2] = 0

C4_Witness ==
  /\ calc_pc = "returned"
  /\ ref_seq = target_seq
  /\ exclude_gaps
  /\ GapCount(ref_seq) = 1
  /\ Len(ref_seq) = MaxLen

\* C9: a mutation is a comparable position where the two characters differ
\* when compared without regard to letter case.
C9_CaseInsensitive ==
  calc_pc = "returned" =>
    calc_out.mutations =
      Cardinality({i \in NotSkipped :
                     UpperChar(ref_seq[i]) /= UpperChar(target_seq[i])})

\* ======================================================= properties: loader
LineNos == 1..Len(raw_lines)

Trimmed(i) == Strip(raw_lines[i])

IsBlank(i) == Trimmed(i) = <<>>

\* a header line: its first character is the marker
IsHeader(i) == ~IsBlank(i) /\ Trimmed(i)[1] = Marker

IsContent(i) == ~IsBlank(i) /\ ~IsHeader(i)

\* the text after the marker, trimmed
HeaderId(i) == Strip(SubSeq(Trimmed(i), 2, Len(Trimmed(i))))

Headers == {i \in LineNos : IsHeader(i)}

Max(S) == CHOOSE m \in S : \A n \in S : n <= m

Min(S) == CHOOSE m \in S : \A n \in S : m <= n

\* the last header line that carries identifier k
LastHeader(k) == Max({i \in Headers : HeaderId(i) = k})

\* the first header line after line i, or one past the end of the input
NextHeader(i) == Min({j \in Headers : j > i} \cup {Len(raw_lines) + 1})

\* the content lines from line i to line j, in order, as one string
RECURSIVE ContentOf(_, _)
ContentOf(i, j) ==
  IF i > j THEN <<>>
  ELSE (IF IsContent(i) THEN Trimmed(i) ELSE <<>>) \o ContentOf(i + 1, j)

\* the content of the record that the header at line h opens
RecordContent(h) == ContentOf(h + 1, NextHeader(h) - 1)

RECURSIVE TotalValueLen(_)
TotalValueLen(d) ==
  IF d = <<>> THEN 0 ELSE Len(Head(d).seq) + TotalValueLen(Tail(d))

\* C7: every identifier of the result maps to the uppercased in-order
\* concatenation of the content lines between the last header line carrying
\* it and the next header line or the end of input; nothing else (blank
\* lines, content before the first header, earlier records of the same
\* identifier) reaches a value, and no content line is used twice.
C7_LastRecordWins ==
  fasta_pc = "done" =>
    /\ \A n \in 1..Len(seqs) :
         /\ \E h \in Headers : HeaderId(h) = seqs[n].id
         /\ seqs[n].seq = Upper(RecordContent(LastHeader(seqs[n].id)))
    /\ \A m, n \in 1..Len(seqs) : seqs[m].id = seqs[n].id => m = n
    /\ TotalValueLen(seqs) <= Len(ContentOf(1, Len(raw_lines)))

C7_Witness ==
  /\ fasta_pc = "done"
  /\ Len(raw_lines) = 4
  /\ IsContent(1)
  /\ IsHeader(2) /\ IsHeader(4) /\ HeaderId(2) = HeaderId(4)
  /\ IsContent(3)
  /\ seqs = <<[id |-> <<"X">>, seq |-> <<>>]>>

\* C8, as stated: once the whole input is read, the keys of the collection
\* are the trimmed identifiers of all header lines.
C8_EveryHeaderCommitted ==
  fasta_pc = "done" => Keys(seqs) = {HeaderId(h) : h \in Headers}

\* the header lines among the lines already read
HeadersRead == {h \in Headers : h < pos}

\* the header whose record is still open, if any
OpenHeader == IF HeadersRead = {} THEN {} ELSE {Max(HeadersRead)}

\* C8, amended: a record is committed for every header line whose trimmed
\* identifier is not empty, when the next header line is read or at the end
\* of input, also when it has no content line (then with the empty
\* sequence); so while reading the keys are the non-empty identifiers of
\* the headers read so far except the one whose record is still open, and
\* after the whole input they are the non-empty identifiers of all headers.
C8_NonEmptyHeadersCommitted ==
  /\ fasta_pc = "reading" =>
       /\ Keys(seqs) = {HeaderId(h) : h \in HeadersRead \ OpenHeader}
                         \ {<<>>}
       /\ \A h \in OpenHeader : current_id = HeaderId(h)
       /\ OpenHeader = {} => current_id = <<>>
  /\ fasta_pc = "done" =>
       /\ Keys(seqs) = {HeaderId(h) : h \in Headers} \ {<<>>}
       /\ \A h \in Headers :
            (HeaderId(h) /= <<>> /\ h = LastHeader(HeaderId(h))
               /\ \A j \in h + 1 .. NextHeader(h) - 1 : ~IsContent(j))
            => DictGet(seqs, HeaderId(h)) = <<>>

C8_Witness ==
  /\ fasta_pc = "done"
  /\ Len(raw_lines) = 4
  /\ IsHeader(1) /\ IsHeader(2) /\ IsContent(3) /\ IsHeader(4)
  /\ seqs = << [id |-> <<"X">>, seq |-> <<>>],
               [id |-> <<"Y">>, seq |-> <<"A", "C">>] >>

\* ================================================== properties: application
Called == calls /= <<>>

\* the status the run is to end with, the checks taken in their order
ExpectedStatus ==
  IF env.read = "failed" THEN 1
  ELSE IF args.reference \notin Keys(loaded) THEN 2
  ELSE IF Cardinality({Len(loaded[i].seq) : i \in 1..Len(loaded)}) > 1 THEN 3
  ELSE IF env.write = "failed" THEN 4
  ELSE 0

\* C5: run ends with exactly one status: 1 if the read fails, else 2 if the
\* reference is not a key of the collection, else 3 if the sequences have
\* more than one length, else 4 if writing the output file fails, else 0.
C5_StatusOrder ==
  /\ run_pc /= "raised"
  /\ run_pc = "done" => status = ExpectedStatus
  /\ run_pc \notin {"done", "idle"} => status = NotReturned

C5_Witness ==
  /\ run_pc = "done"
  /\ status = 2
  /\ loaded /= <<>>
  /\ args.reference \notin Keys(loaded)
  /\ Cardinality({Len(loaded[i].seq) : i \in 1..Len(loaded)}) = 2

\* C6: a run that ends with status 4 leaves no part of its CSV text, header
\* row or data row, in the output file.
C6_NoPartialOutput ==
  status = 4 => out_file = <<>>

\* C10: the calculator is invoked only after the read, the reference check
\* and the equal-length check have passed; no invocation gets two strings
\* of different lengths or raises, and a run that returns 1, 2 or 3 has
\* made no invocation.
C10_GatedCalls ==
  /\ run_pc /= "raised"
  /\ \A n \in 1..Len(calls) :
       /\ Len(calls[n].ref_seq) = Len(calls[n].target_seq)
       /\ ~calls[n].raised
  /\ Called =>
       /\ env.read = "ok"
       /\ args.reference \in Keys(loaded)
       /\ \A m, n \in 1..Len(loaded) : Len(loaded[m].seq) = Len(loaded[n].seq)
  /\ status \in {1, 2, 3} => ~Called

C10_Witness ==
  /\ run_pc = "done"
  /\ status = 0
  /\ Len(calls) = 2
  /\ calls[2].target_seq /= calls[2].ref_seq
  /\ calls[1].target_seq = calls[1].ref_seq

====
